---- MODULE Spec2Model ----
(***************************************************************************)
(* tools/make-tls-ct-logids.py: fetch the Certificate Transparency log     *)
(* list, render the ct_logids[] table, and print it or patch it into       *)
(* epan/dissectors/packet-tls-utils.c.                                     *)
(*                                                                         *)
(* Text is a sequence of atoms.  An atom is a TLA+ string holding either   *)
(* one character or one fragment of a format string of the script; the     *)
(* text an atom sequence stands for is the concatenation of its atoms.     *)
(* The atoms in use form a uniquely decodable code (no atom can be spelt   *)
(* with others that occur in the same position), so two sequences are      *)
(* equal exactly when the texts are.  "}" is the only atom whose first     *)
(* character is a closing brace, and NL the only atom holding a line       *)
(* break.                                                                  *)
(*                                                                         *)
(* SOURCE_FILE exists and reading and writing it succeed; the failures     *)
(* modelled are those of the request, of r.json(), of the header lookup,   *)
(* of b64decode and of parse_source.                                       *)
(***************************************************************************)
EXTENDS Integers, Sequences, FiniteSets

VARIABLES
    file,       \* content of SOURCE_FILE on disk
    update,     \* args.update
    pc,         \* position in main(): fetch, generate, branch, scan, compare, done, failed
    resp,       \* r: the HTTP response (JSON body, Last-Modified header)
    code,       \* the generated block (main: code)
    lines,      \* parse_source: the lines of f not yet iterated
    stage,      \* parse_source: stage (0 outside parse_source)
    begin,      \* parse_source: begin
    block,      \* parse_source: block
    end,        \* parse_source: end
    out,        \* what the run printed: none, printed, uptodate, updated
    err,        \* the uncaught exception that ended the run, or NoErr
    nread,      \* opens of SOURCE_FILE for reading in this run
    nwrite,     \* opens of SOURCE_FILE for writing in this run
    file0,      \* history: content of SOURCE_FILE when the run started
    rewrites,   \* history: rewrites of SOURCE_FILE since the initial state
    prev,       \* history: what the preceding run wrote, or NoPrev
    es          \* escape_c under test: the string and its escapings

vars == <<file, update, pc, resp, code, lines, stage, begin, block, end, out, err,
          nread, nwrite, file0, rewrites, prev, es>>

----------------------------------------------------------------------------
(* Bounds *)

MaxFileLines == 4   \* lines of the initial source file
MaxRewrites == 2    \* a new run starts only while the file was rewritten fewer times
MaxOps == 2         \* operators of a generated JSON document
MaxLogs == 2        \* logs of one operator
MaxDescLen == 4     \* characters of a description given to escape_c

----------------------------------------------------------------------------
(* Characters and module constants *)

NL == "\n"
BS == "\\"
DQ == "\""
RB == "}"

HEADER == <<"/* Generated by tools/make-tls-ct-logids.py", NL>>
\* a variant with 16 bytes per line, the hex dump habit
BytesPerLine16 == 8 + 8
BYTES_PER_LINE == 11

RECURSIVE Concat(_)
Concat(ss) == IF ss = <<>> THEN <<>> ELSE Head(ss) \o Concat(Tail(ss))

----------------------------------------------------------------------------
(* base64.b64decode (binascii.a2b_base64, non-strict) on keys over the     *)
(* base64 alphabet and "="                                                 *)

B64Alphabet ==
    <<"A","B","C","D","E","F","G","H","I","J","K","L","M","N","O","P",
      "Q","R","S","T","U","V","W","X","Y","Z","a","b","c","d","e","f",
      "g","h","i","j","k","l","m","n","o","p","q","r","s","t","u","v",
      "w","x","y","z","0","1","2","3","4","5","6","7","8","9","+","/">>

B64Value(c) == (CHOOSE i \in 1..64 : B64Alphabet[i] = c) - 1

\* the decoder's loop: quad = quad_pos, left = leftchar; the result is the
\* bytes decoded, with ok = FALSE when the input ends inside a quad (the
\* decoder raises binascii.Error)
RECURSIVE B64Loop(_, _, _, _, _)
B64Loop(key, quad, left, pads, bytes) ==
    IF key = <<>> THEN [ok |-> quad = 0, bytes |-> bytes]
    ELSE IF Head(key) = "="
         THEN IF quad >= 2 /\ quad + pads + 1 >= 4 THEN [ok |-> TRUE, bytes |-> bytes]
              ELSE B64Loop(Tail(key), quad, left, IF quad >= 2 THEN pads + 1 ELSE pads, bytes)
         ELSE LET v == B64Value(Head(key)) IN
              CASE quad = 0 -> B64Loop(Tail(key), 1, v, 0, bytes)
                [] quad = 1 -> B64Loop(Tail(key), 2, v % 16, 0,
                                       Append(bytes, left * 4 + v \div 16))
                [] quad = 2 -> B64Loop(Tail(key), 3, v % 4, 0,
                                       Append(bytes, left * 16 + v \div 4))
                [] quad = 3 -> B64Loop(Tail(key), 0, 0, 0,
                                       Append(bytes, left * 64 + v))

b64decode(key) == B64Loop(key, 0, 0, 0, <<>>)

----------------------------------------------------------------------------
(* hashlib.sha256 (FIPS 180-4) on messages of fewer than 56 bytes, which   *)
(* pad to one block.  A 32-bit word is a pair <<high 16 bits, low 16 bits>>*)

K256 == <<
    <<17034, 12184>>, <<28983, 17553>>, <<46528, 64463>>, <<59829, 56229>>,
    <<14678, 49755>>, <<23025, 4593>>, <<37439, 33444>>, <<43804, 24277>>,
    <<55303, 43672>>, <<4739, 23297>>, <<9265, 34238>>, <<21772, 32195>>,
    <<29374, 23924>>, <<32990, 45566>>, <<39900, 1703>>, <<49563, 61812>>,
    <<58523, 27073>>, <<61374, 18310>>, <<4033, 40390>>, <<9228, 41420>>,
    <<11753, 11375>>, <<19060, 33962>>, <<23728, 43484>>, <<30457, 35034>>,
    <<38974, 20818>>, <<43057, 50797>>, <<45059, 10184>>, <<48985, 32711>>,
    <<50912, 3059>>, <<54695, 37191>>, <<1738, 25425>>, <<5161, 10599>>,
    <<10167, 2693>>, <<11803, 8504>>, <<19756, 28156>>, <<21304, 3347>>,
    <<25866, 29524>>, <<30314, 2747>>, <<33218, 51502>>, <<37490, 11397>>,
    <<41663, 59553>>, <<43034, 26187>>, <<49739, 35696>>, <<51052, 20899>>,
    <<53650, 59417>>, <<54937, 1572>>, <<62478, 13701>>, <<4202, 41072>>,
    <<6564, 49430>>, <<7735, 27656>>, <<10056, 30540>>, <<13488, 48309>>,
    <<14620, 3251>>, <<20184, 43594>>, <<23452, 51791>>, <<26670, 28659>>,
    <<29839, 33518>>, <<30885, 25455>>, <<33992, 30740>>, <<36039, 520>>,
    <<37054, 65530>>, <<42064, 27883>>, <<48889, 41975>>, <<50801, 30962>>
>>

H256 == <<
    <<27145, 58983>>, <<47975, 44677>>, <<15470, 62322>>, <<42319, 62778>>,
    <<20750, 21119>>, <<39685, 26764>>, <<8067, 55723>>, <<23520, 52505>>
>>

Pow2(n) == 2 ^ n

RECURSIVE Xor16(_, _, _)
Xor16(a, b, n) ==
    IF n = 0 THEN 0 ELSE ((a + b) % 2) + 2 * Xor16(a \div 2, b \div 2, n - 1)

RECURSIVE And16(_, _, _)
And16(a, b, n) ==
    IF n = 0 THEN 0 ELSE ((a % 2) * (b % 2)) + 2 * And16(a \div 2, b \div 2, n - 1)

Xor(a, b) == <<Xor16(a[1], b[1], 16), Xor16(a[2], b[2], 16)>>
And(a, b) == <<And16(a[1], b[1], 16), And16(a[2], b[2], 16)>>
Not(a) == <<65535 - a[1], 65535 - a[2]>>
Add(a, b) == <<(a[1] + b[1] + ((a[2] + b[2]) \div 65536)) % 65536, (a[2] + b[2]) % 65536>>

Shr(w, n) ==
    IF n >= 16 THEN <<0, w[1] \div Pow2(n - 16)>>
    ELSE <<w[1] \div Pow2(n), (w[2] \div Pow2(n)) + (w[1] % Pow2(n)) * Pow2(16 - n)>>

Rotr(w, n) ==
    IF n >= 16
    THEN <<(w[2] \div Pow2(n - 16)) + (w[1] % Pow2(n - 16)) * Pow2(32 - n),
           (w[1] \div Pow2(n - 16)) + (w[2] % Pow2(n - 16)) * Pow2(32 - n)>>
    ELSE <<(w[1] \div Pow2(n)) + (w[2] % Pow2(n)) * Pow2(16 - n),
           (w[2] \div Pow2(n)) + (w[1] % Pow2(n)) * Pow2(16 - n)>>

Ch(e, f, g) == Xor(And(e, f), And(Not(e), g))
Maj(a, b, c) == Xor(Xor(And(a, b), And(a, c)), And(b, c))
BigSigma0(a) == Xor(Xor(Rotr(a, 2), Rotr(a, 13)), Rotr(a, 22))
BigSigma1(e) == Xor(Xor(Rotr(e, 6), Rotr(e, 11)), Rotr(e, 25))
SmallSigma0(w) == Xor(Xor(Rotr(w, 7), Rotr(w, 18)), Shr(w, 3))
SmallSigma1(w) == Xor(Xor(Rotr(w, 17), Rotr(w, 19)), Shr(w, 10))

\* byte j (1..64) of the padded block: the message, 0x80, zeros, the bit length
PadByte(msg, j) ==
    IF j <= Len(msg) THEN msg[j]
    ELSE IF j = Len(msg) + 1 THEN 128
    ELSE IF j = 63 THEN (8 * Len(msg)) \div 256
    ELSE IF j = 64 THEN (8 * Len(msg)) % 256
    ELSE 0

BlockWord(msg, t) ==
    <<256 * PadByte(msg, 4 * t - 3) + PadByte(msg, 4 * t - 2),
      256 * PadByte(msg, 4 * t - 1) + PadByte(msg, 4 * t)>>

\* the message schedule W[1..64], extended one word at a time
RECURSIVE Schedule(_, _)
Schedule(w, t) ==
    IF Len(w) = 64 THEN w
    ELSE Schedule(Append(w, Add(Add(SmallSigma1(w[t - 2]), w[t - 7]),
                                Add(SmallSigma0(w[t - 15]), w[t - 16]))), t + 1)

\* the 64 rounds of the compression function on working variables s = <<a..h>>
RECURSIVE Rounds(_, _, _)
Rounds(s, w, t) ==
    IF Len(s) = 8 /\ t = 65 THEN s
    ELSE LET t1 == Add(Add(Add(s[8], BigSigma1(s[5])),
                           Add(Ch(s[5], s[6], s[7]), K256[t])), w[t])
             t2 == Add(BigSigma0(s[1]), Maj(s[1], s[2], s[3]))
         IN  Rounds(<<Add(t1, t2), s[1], s[2], s[3], Add(s[4], t1), s[5], s[6], s[7]>>,
                    w, t + 1)

sha256(msg) ==
    LET w == Schedule([t \in 1..16 |-> BlockWord(msg, t)], 17)
        s == Rounds(H256, w, 1)
        h == [i \in 1..8 |-> Add(H256[i], s[i])]
    IN  [j \in 1..32 |->
            LET hw == h[((j - 1) \div 4) + 1]
                k == (j - 1) % 4
            IN  IF k = 0 THEN hw[1] \div 256
                ELSE IF k = 1 THEN hw[1] % 256
                ELSE IF k = 2 THEN hw[2] \div 256
                ELSE hw[2] % 256]

----------------------------------------------------------------------------
(* Formatting *)

Digits == <<"0","1","2","3","4","5","6","7","8","9">>
HexDigits == <<"0","1","2","3","4","5","6","7","8","9","a","b","c","d","e","f">>

\* "%s" % n and "%d" % n for an int n >= 0: its decimal digits
RECURSIVE DecStr(_)
DecStr(n) == IF n < 10 THEN <<Digits[n + 1]>> ELSE Append(DecStr(n \div 10), Digits[(n % 10) + 1])

\* "0x%02x," % b for a byte b
Fmt02x(b) == "0x" \o HexDigits[(b \div 16) + 1] \o HexDigits[(b % 16) + 1] \o ","

RECURSIVE byteshex(_)
byteshex(b) ==
    IF Len(b) = 0 THEN <<>>
    ELSE IF Len(b) = 1 THEN <<Fmt02x(b[1])>>
    ELSE <<Fmt02x(b[1]), " ">> \o byteshex(Tail(b))

\* s.replace(old, new) for a one-character old
RECURSIVE Replace(_, _, _)
Replace(s, old, new) ==
    IF s = <<>> THEN <<>>
    ELSE (IF Head(s) = old THEN new ELSE <<Head(s)>>) \o Replace(Tail(s), old, new)

\* a variant with the two replacements in the other order, which escapes the
\* backslashes the first pass put in front of the double quotes
escape_c_quotes_first(s) == Replace(Replace(s, DQ, <<BS, DQ>>), BS, <<BS, BS>>)

escape_c(s) == Replace(Replace(s, BS, <<BS, BS>>), DQ, <<BS, DQ>>)

----------------------------------------------------------------------------
(* process_json *)

KeyEmpty == <<>>                    \* base64 of the empty byte string
KeyA == <<"Y", "Q", "=", "=">>      \* base64 of b"a"
KeyBad == <<"A">>                   \* one data character: b64decode raises

\* key_id = sha256(b64decode(entry["key"])).digest(), tabulated over the keys
\* the inputs hold
KeyIds == [k \in {KeyEmpty, KeyA} |-> sha256(b64decode(k).bytes)]
KeyId(entry) == KeyIds[entry.key]

\* a variant that walks the operators from the last to the first
ChainLogsReversed(obj) ==
    Concat([i \in 1..Len(obj.operators) |-> obj.operators[Len(obj.operators) + 1 - i].logs])

\* itertools.chain(*[op['logs'] for op in obj['operators']])
ChainLogs(obj) == Concat([i \in 1..Len(obj.operators) |-> obj.operators[i].logs])


Min(a, b) == IF a < b THEN a ELSE b

\* for offset in range(0, len(key_id), BYTES_PER_LINE): one line of bytes each
RECURSIVE ByteLines(_, _)
ByteLines(key_id, offset) ==
    IF offset >= Len(key_id) THEN <<>>
    ELSE <<"          ">>
         \o byteshex(SubSeq(key_id, offset + 1, Min(offset + BYTES_PER_LINE, Len(key_id))))
         \o <<NL>>
         \o ByteLines(key_id, offset + BYTES_PER_LINE)

\* the body of the loop over logs, for one entry
RenderEntry(entry) ==
    LET key_id == KeyId(entry) IN
    <<"    { (const guint8[]){", NL>>
    \o ByteLines(key_id, 0)
    \o <<"      },", NL>>
    \o <<"      ">> \o DecStr(Len(key_id)) \o <<", ", DQ>> \o escape_c(entry.description)
    \o <<DQ, " },", NL>>

RECURSIVE RenderEntries(_)
RenderEntries(logs) ==
    IF logs = <<>> THEN <<>> ELSE RenderEntry(Head(logs)) \o RenderEntries(Tail(logs))

\* a variant that counts the sentinel as an entry
EntryCountWithSentinel(logs) == Len(logs) + 1

\* the count written by "%s entries" in the header comment
EntryCount(logs) == Len(logs)

\* b64decode raises binascii.Error on some entry
ProcessJsonRaises(obj) ==
    \E i \in 1..Len(ChainLogs(obj)) : ~b64decode(ChainLogs(obj)[i].key).ok

process_json(obj, lastmod) ==
    LET logs == ChainLogs(obj) IN
    HEADER
    \o <<" * Last-Modified ">> \o lastmod \o <<", ">> \o DecStr(EntryCount(logs))
    \o <<" entries. */", NL>>
    \o <<"static const bytes_string ct_logids[] = {", NL>>
    \o RenderEntries(logs)
    \o <<"    { NULL, 0, NULL }", NL>>
    \o <<RB, ";", NL>>

----------------------------------------------------------------------------
(* Inputs *)

SeqsUpTo(S, n) == UNION {[1..k -> S] : k \in 0..n}

\* JSON documents: a list of operators, each with a list of logs
JsonObjs(pool, maxOps, maxLogs) ==
    {[operators |-> ops] : ops \in SeqsUpTo({[logs |-> l] : l \in SeqsUpTo(pool, maxLogs)}, maxOps)}


LogTest == [description |-> <<"T", "e", "s", "t", " ", "L", "o", "g">>, key |-> KeyEmpty]
LogQuote == [description |-> <<"a", DQ, BS>>, key |-> KeyA]
LogBrace == [description |-> <<NL, RB>>, key |-> KeyEmpty]
LogBad == [description |-> <<"a">>, key |-> KeyBad]

\* a response r: json = r.json() returns obj (else it raises), haslm =
\* r.headers holds 'Last-Modified' (else the lookup raises KeyError)
Response(json, obj, haslm, lastmod) ==
    [json |-> json, obj |-> obj, haslm |-> haslm, lastmod |-> lastmod]
EmptyObj == [operators |-> <<>>]

LastMods == {<<"M", "o", "n">>, <<"T", "u", "e">>}

\* what requests.get may return to a run of main()
RunObjs ==
    {EmptyObj,
     [operators |-> <<[logs |-> <<LogTest>>]>>],
     [operators |-> <<[logs |-> <<LogBrace>>]>>],
     [operators |-> <<[logs |-> <<LogBad>>]>>]}
Responses ==
    {Response(TRUE, o, TRUE, m) : o \in RunObjs, m \in LastMods}
    \cup {Response(FALSE, EmptyObj, TRUE, <<"M", "o", "n">>),
          Response(TRUE, EmptyObj, FALSE, <<>>)}

\* the responses the generation is checked on
GenResponses ==
    {Response(TRUE, o, TRUE, m) : o \in JsonObjs({LogTest, LogQuote}, MaxOps, MaxLogs),
                                  m \in LastMods}

\* source files: up to MaxFileLines lines, the last one with or without its
\* line break
CloseLine == <<RB, ";", NL>>
OtherLine == <<"x", NL>>
LinePool == {HEADER, CloseLine, OtherLine}
Files ==
    {Concat(ls) : ls \in SeqsUpTo(LinePool, MaxFileLines)}
    \cup {SubSeq(Concat(ls), 1, Len(Concat(ls)) - 1) : ls \in SeqsUpTo(LinePool, MaxFileLines) \ {<<>>}}

NoResp == Response(FALSE, EmptyObj, FALSE, <<>>)
NoErr == [kind |-> "none", stage |-> 0]
NoPrev == [wrote |-> FALSE, resp |-> NoResp, begin |-> <<>>, code |-> <<>>, end |-> <<>>]
NoEs == [at |-> "unused", s |-> <<>>, once |-> <<>>, twice |-> <<>>]

----------------------------------------------------------------------------
(* parse_source *)

\* `for line in f`: the text cut after every line break
RECURSIVE SplitLines(_)
SplitLines(text) ==
    IF text = <<>> THEN <<>>
    ELSE LET brk == {i \in 1..Len(text) : text[i] = NL}
             k == IF brk = {} THEN Len(text) ELSE CHOOSE i \in brk : \A j \in brk : i <= j
         IN  <<SubSeq(text, 1, k)>> \o SplitLines(SubSeq(text, k + 1, Len(text)))

\* line.startswith('}')
StartsWithBrace(line) == Len(line) > 0 /\ line[1] = RB

\* lines 67-68: the stage after the header test
StageOnLine(st, line) == IF line = HEADER THEN 2 ELSE st

\* lines 73-74: the stage after a line was added to the block
StageAfterBlockLine(line) == IF StartsWithBrace(line) THEN 3 ELSE 2

\* a variant that raises only when no header was seen
ParseFailsBeforeBlock(st) == st = 1

\* line 77: the condition of the raise
ParseFails(st) == st # 3

\* a variant that compares by identity (block is code), never true of two
\* strings built separately
SameBlockIdentity(blk, cd) == FALSE

\* line 94: block == code
SameBlock(blk, cd) == blk = cd

----------------------------------------------------------------------------
(* main() *)

Init ==
    /\ file \in Files
    /\ update \in BOOLEAN
    /\ pc = "fetch"
    /\ resp = NoResp
    /\ code = <<>>
    /\ lines = <<>>
    /\ stage = 0
    /\ begin = <<>>
    /\ block = <<>>
    /\ end = <<>>
    /\ out = "none"
    /\ err = NoErr
    /\ nread = 0
    /\ nwrite = 0
    /\ file0 = file
    /\ rewrites = 0
    /\ prev = NoPrev
    /\ es = NoEs

\* line 89: r = requests.get(CT_JSON_URL)
Fetch ==
    /\ pc = "fetch"
    /\ \E raises \in BOOLEAN :
        IF raises
        THEN /\ pc' = "failed"
             /\ err' = [kind |-> "network", stage |-> 0]
             /\ resp' = resp
        ELSE /\ pc' = "generate"
             /\ err' = err
             /\ resp' \in Responses
    /\ UNCHANGED <<file, update, code, lines, stage, begin, block, end, out,
                   nread, nwrite, file0, rewrites, prev, es>>

\* line 90: code = process_json(r.json(), lastmod=r.headers['Last-Modified'])
Generate ==
    /\ pc = "generate"
    /\ IF ~resp.json
       THEN /\ pc' = "failed"
            /\ err' = [kind |-> "json", stage |-> 0]
            /\ code' = code
       ELSE IF ~resp.haslm
       THEN /\ pc' = "failed"
            /\ err' = [kind |-> "header", stage |-> 0]
            /\ code' = code
       ELSE IF ProcessJsonRaises(resp.obj)
       THEN /\ pc' = "failed"
            /\ err' = [kind |-> "process_json", stage |-> 0]
            /\ code' = code
       ELSE /\ pc' = "branch"
            /\ err' = err
            /\ code' = process_json(resp.obj, resp.lastmod)
    /\ UNCHANGED <<file, update, resp, lines, stage, begin, block, end, out,
                   nread, nwrite, file0, rewrites, prev, es>>

\* lines 102-103: print(code)
PrintCode ==
    /\ pc = "branch"
    /\ ~update
    /\ out' = "printed"
    /\ pc' = "done"
    /\ UNCHANGED <<file, update, resp, code, lines, stage, begin, block, end, err,
                   nread, nwrite, file0, rewrites, prev, es>>

\* a variant that calls parse_source whatever args.update is
OpenSourceAlways ==
    /\ pc = "branch"
    /\ begin' = <<>>
    /\ block' = <<>>
    /\ end' = <<>>
    /\ stage' = 1
    /\ lines' = SplitLines(file)
    /\ nread' = nread + 1
    /\ pc' = "scan"
    /\ UNCHANGED <<file, update, resp, code, out, err, nwrite, file0, rewrites, prev, es>>

\* lines 92-93, 62-65: parse_source is entered and opens the file
OpenSource ==
    /\ pc = "branch"
    /\ update
    /\ begin' = <<>>
    /\ block' = <<>>
    /\ end' = <<>>
    /\ stage' = 1
    /\ lines' = SplitLines(file)
    /\ nread' = nread + 1
    /\ pc' = "scan"
    /\ UNCHANGED <<file, update, resp, code, out, err, nwrite, file0, rewrites, prev, es>>

\* lines 66-76: one iteration of the loop over the lines
ScanLine ==
    /\ pc = "scan"
    /\ lines # <<>>
    /\ LET line == Head(lines)
           st == StageOnLine(stage, line)
       IN  /\ begin' = IF st = 1 THEN begin \o line ELSE begin
           /\ block' = IF st = 2 THEN block \o line ELSE block
           /\ end' = IF st = 3 THEN end \o line ELSE end
           /\ stage' = IF st = 2 THEN StageAfterBlockLine(line) ELSE st
    /\ lines' = Tail(lines)
    /\ UNCHANGED <<file, update, pc, resp, code, out, err, nread, nwrite, file0,
                   rewrites, prev, es>>

\* lines 77-78: raise RuntimeError("Could not parse file (in stage %d)")
ParseRaise ==
    /\ pc = "scan"
    /\ lines = <<>>
    /\ ParseFails(stage)
    /\ err' = [kind |-> "parse", stage |-> stage]
    /\ pc' = "failed"
    /\ UNCHANGED <<file, update, resp, code, lines, stage, begin, block, end, out,
                   nread, nwrite, file0, rewrites, prev, es>>

\* line 79: return begin, block, end
ParseReturn ==
    /\ pc = "scan"
    /\ lines = <<>>
    /\ ~ParseFails(stage)
    /\ pc' = "compare"
    /\ UNCHANGED <<file, update, resp, code, lines, stage, begin, block, end, out, err,
                   nread, nwrite, file0, rewrites, prev, es>>

\* lines 94-95: print("File is up-to-date")
UpToDate ==
    /\ pc = "compare"
    /\ SameBlock(block, code)
    /\ out' = "uptodate"
    /\ pc' = "done"
    /\ UNCHANGED <<file, update, resp, code, lines, stage, begin, block, end, err,
                   nread, nwrite, file0, rewrites, prev, es>>

\* lines 96-101: the file is rewritten, then print("Updated ...")
Write ==
    /\ pc = "compare"
    /\ ~SameBlock(block, code)
    /\ file' = begin \o code \o end
    /\ nwrite' = nwrite + 1
    /\ rewrites' = rewrites + 1
    /\ out' = "updated"
    /\ pc' = "done"
    /\ UNCHANGED <<update, resp, code, lines, stage, begin, block, end, err,
                   nread, file0, prev, es>>

\* lines 106-107: the script is run again on the file the last run left
Restart ==
    /\ pc \in {"done", "failed"}
    /\ rewrites < MaxRewrites
    /\ update' \in BOOLEAN
    /\ pc' = "fetch"
    /\ resp' = NoResp
    /\ code' = <<>>
    /\ lines' = <<>>
    /\ stage' = 0
    /\ begin' = <<>>
    /\ block' = <<>>
    /\ end' = <<>>
    /\ out' = "none"
    /\ err' = NoErr
    /\ nread' = 0
    /\ nwrite' = 0
    /\ file0' = file
    /\ prev' = IF out = "updated"
               THEN [wrote |-> TRUE, resp |-> resp, begin |-> begin, code |-> code,
                     end |-> end]
               ELSE NoPrev
    /\ UNCHANGED <<file, rewrites, es>>

Next ==
    \/ Fetch
    \/ Generate
    \/ PrintCode
    \/ OpenSource
    \/ ScanLine
    \/ ParseRaise
    \/ ParseReturn
    \/ UpToDate
    \/ Write
    \/ Restart

Spec == Init /\ [][Next]_vars

----------------------------------------------------------------------------
(* process_json on its own: the state after the fetch, over a wider set of *)
(* JSON documents *)

\* a document of 12 logs, so that the entry count has two digits
WideObj ==
    [operators |-> <<[logs |-> <<LogTest, LogQuote, LogTest, LogTest, LogQuote, LogQuote>>],
                     [logs |-> <<>>],
                     [logs |-> <<LogQuote, LogTest, LogQuote, LogQuote, LogTest, LogTest>>]>>]

InitGen ==
    /\ file = <<>>
    /\ update = FALSE
    /\ pc = "generate"
    /\ resp \in GenResponses \cup {Response(TRUE, WideObj, TRUE, <<"M", "o", "n">>)}
    /\ code = <<>>
    /\ lines = <<>>
    /\ stage = 0
    /\ begin = <<>>
    /\ block = <<>>
    /\ end = <<>>
    /\ out = "none"
    /\ err = NoErr
    /\ nread = 0
    /\ nwrite = 0
    /\ file0 = <<>>
    /\ rewrites = 0
    /\ prev = NoPrev
    /\ es = NoEs

NextGen == Generate \/ PrintCode

SpecGen == InitGen /\ [][NextGen]_vars

----------------------------------------------------------------------------
(* escape_c on its own: a description is escaped, and the result escaped   *)
(* again *)

EscChars == {BS, DQ, "a"}

InitEscape ==
    /\ file = <<>>
    /\ update = FALSE
    /\ pc = "escape"
    /\ resp = NoResp
    /\ code = <<>>
    /\ lines = <<>>
    /\ stage = 0
    /\ begin = <<>>
    /\ block = <<>>
    /\ end = <<>>
    /\ out = "none"
    /\ err = NoErr
    /\ nread = 0
    /\ nwrite = 0
    /\ file0 = <<>>
    /\ rewrites = 0
    /\ prev = NoPrev
    /\ \E s \in SeqsUpTo(EscChars, MaxDescLen) :
          es = [at |-> "in", s |-> s, once |-> <<>>, twice |-> <<>>]

EscapeOnce ==
    /\ es.at = "in"
    /\ es' = [es EXCEPT !.at = "once", !.once = escape_c(es.s)]
    /\ UNCHANGED <<file, update, pc, resp, code, lines, stage, begin, block, end, out, err,
                   nread, nwrite, file0, rewrites, prev>>

EscapeTwice ==
    /\ es.at = "once"
    /\ es' = [es EXCEPT !.at = "twice", !.twice = escape_c(es.once)]
    /\ UNCHANGED <<file, update, pc, resp, code, lines, stage, begin, block, end, out, err,
                   nread, nwrite, file0, rewrites, prev>>

NextEscape == EscapeOnce \/ EscapeTwice

SpecEscape == InitEscape /\ [][NextEscape]_vars

----------------------------------------------------------------------------
(* What the claims speak of, computed from the file and the JSON document  *)
(* without the operators above *)

\* the file as it was when the run started, line by line
Lines0 == SplitLines(file0)

IsHeaderLine(l) == l = HEADER

\* the index of the first header line of ls, 0 if none
FirstHeader(ls) ==
    IF \E i \in 1..Len(ls) : IsHeaderLine(ls[i])
    THEN CHOOSE i \in 1..Len(ls) : IsHeaderLine(ls[i]) /\ \A j \in 1..(i - 1) : ~IsHeaderLine(ls[j])
    ELSE 0

\* the index of the first line at or after index from that starts with '}', 0 if none
FirstClose(ls, from) ==
    IF \E i \in from..Len(ls) : StartsWithBrace(ls[i])
    THEN CHOOSE i \in from..Len(ls) :
             StartsWithBrace(ls[i]) /\ \A j \in from..(i - 1) : ~StartsWithBrace(ls[j])
    ELSE 0

\* the three regions of the spec: the lines before the first header line, the
\* block from it to the first closing line, the lines after that
RegionPrefix(ls) == Concat(SubSeq(ls, 1, FirstHeader(ls) - 1))
RegionBlock(ls) == Concat(SubSeq(ls, FirstHeader(ls), FirstClose(ls, FirstHeader(ls))))
RegionSuffix(ls) == Concat(SubSeq(ls, FirstClose(ls, FirstHeader(ls)) + 1, Len(ls)))

\* the sum of the lengths of the operators' logs lists
RECURSIVE TotalLogs(_)
TotalLogs(ops) == IF ops = <<>> THEN 0 ELSE Len(Head(ops).logs) + TotalLogs(Tail(ops))

\* the i-th log counting through the operators in order
RECURSIVE LogAt(_, _)
LogAt(ops, i) ==
    IF i <= Len(Head(ops).logs) THEN Head(ops).logs[i]
    ELSE LogAt(Tail(ops), i - Len(Head(ops).logs))

EntryOpen == "    { (const guint8[]){"
Sentinel == "    { NULL, 0, NULL }"

\* the positions in a block of the atoms that open an entry, ascending
OpenPositions(cd) ==
    LET P == {i \in 1..Len(cd) : cd[i] = EntryOpen}
        nth[k \in 1..Cardinality(P)] ==
            CHOOSE i \in P : Cardinality({j \in P : j < i}) = k - 1
    IN  nth

\* the text of the k-th rendered entry: from its opening atom up to the next
\* one, or up to the sentinel
RenderedEntry(cd, k) ==
    LET pos == OpenPositions(cd)
        stop == IF k < Len(pos) THEN pos[k + 1]
                ELSE CHOOSE i \in 1..Len(cd) : cd[i] = Sentinel
    IN  SubSeq(cd, pos[k], stop - 1)

\* the number a digit string denotes
RECURSIVE DecVal(_)
DecVal(ds) ==
    IF ds = <<>> THEN 0
    ELSE 10 * DecVal(SubSeq(ds, 1, Len(ds) - 1))
         + (CHOOSE d \in 0..9 : Digits[d + 1] = ds[Len(ds)])

\* the count recorded in the header comment: the digits between ", " and
\* " entries. */" on the second line
HeaderCount(cd) ==
    LET l == SplitLines(cd)[2]
        k == CHOOSE i \in 1..Len(l) : l[i] = " entries. */"
        j == CHOOSE i \in 1..(k - 1) : l[i] = ", "
    IN  DecVal(SubSeq(l, j + 1, k - 1))

\* each backslash and each double quote prefixed with one backslash
RECURSIVE Prefixed(_)
Prefixed(s) ==
    IF s = <<>> THEN <<>>
    ELSE (IF Head(s) \in {BS, DQ} THEN <<BS, Head(s)>> ELSE <<Head(s)>>) \o Prefixed(Tail(s))

\* the backslash of each backslash pair removed
RECURSIVE Unescape(_)
Unescape(s) ==
    IF s = <<>> THEN <<>>
    ELSE IF Head(s) = BS /\ Len(s) >= 2 THEN <<s[2]>> \o Unescape(Tail(Tail(s)))
    ELSE <<Head(s)>> \o Unescape(Tail(s))

\* SHA-256 test vectors, as the byte literals of the table
HexOfEmpty ==
    <<"0xe3,", "0xb0,", "0xc4,", "0x42,", "0x98,", "0xfc,", "0x1c,", "0x14,",
      "0x9a,", "0xfb,", "0xf4,", "0xc8,", "0x99,", "0x6f,", "0xb9,", "0x24,",
      "0x27,", "0xae,", "0x41,", "0xe4,", "0x64,", "0x9b,", "0x93,", "0x4c,",
      "0xa4,", "0x95,", "0x99,", "0x1b,", "0x78,", "0x52,", "0xb8,", "0x55,">>
HexOfA ==
    <<"0xca,", "0x97,", "0x81,", "0x12,", "0xca,", "0x1b,", "0xbd,", "0xca,",
      "0xfa,", "0xc2,", "0x31,", "0xb3,", "0x9a,", "0x23,", "0xdc,", "0x4d,",
      "0xa7,", "0x86,", "0xef,", "0xf8,", "0x14,", "0x7c,", "0x4e,", "0x72,",
      "0xb9,", "0x80,", "0x77,", "0x85,", "0xaf,", "0xee,", "0x48,", "0xbb,">>
ExpectedHex(key) == IF key = KeyEmpty THEN HexOfEmpty ELSE HexOfA

\* the byte literals of one line of bytes: indent, literals joined by " ", NL
LineBytes(l) == [i \in 1..((Len(l) - 1) \div 2) |-> l[2 * i]]
IsByteLine(l) ==
    /\ Len(l) >= 3
    /\ Len(l) % 2 = 1
    /\ l[1] = "          "
    /\ l[Len(l)] = NL
    /\ \A i \in 1..Len(l) : (i > 1 /\ i < Len(l) /\ i % 2 = 1) => l[i] = " "

----------------------------------------------------------------------------
(* Claims *)

\* C1: after an update that wrote the file, the file is P + code + S, where P
\* holds every line before the generated block (the first header line up to
\* the first closing line) and S every line after it, for any file content,
\* also one in which the header line occurs more than once.
C1_OutsidePreserved ==
    (pc = "done" /\ out = "updated")
        => file = RegionPrefix(Lines0) \o code \o RegionSuffix(Lines0)

\* C2: in update mode, when the generated block equals the block parse_source
\* extracted, the file is not opened for writing, its content is unchanged and
\* "File is up-to-date" is reported; "Updated" is reported only in runs where
\* the blocks differ and the file was written.
C2_NoWriteWhenIdentical ==
    /\ (pc \in {"compare", "done"} /\ update /\ block = code)
           => (nwrite = 0 /\ file = file0)
    /\ (pc = "done" /\ update /\ block = code) => out = "uptodate"
    /\ out = "uptodate" => (update /\ block = code /\ nwrite = 0 /\ file = file0)
    /\ out = "updated"
           => (update /\ block # code /\ nwrite = 1 /\ file = begin \o code \o end)

C2_Witness ==
    /\ pc = "done"
    /\ update
    /\ out = "uptodate"
    /\ block = code
    /\ Len(code) > 0
    /\ file = file0

\* C3: parse_source raises exactly when the file holds no header line, or
\* holds a header line with no line starting with '}' at or after it; the
\* outcome is fixed by the file content: the stage in the error is 1 in the
\* first case and 2 in the second, and a split that is returned puts each
\* line where the lines before it place it; and when it raises the file is
\* left as it was.
ParseDone == nread = 1 /\ pc \in {"compare", "done", "failed"}
HasHeader(ls) == \E i \in 1..Len(ls) : IsHeaderLine(ls[i])
Unclosed(ls) == \E i \in 1..Len(ls) : IsHeaderLine(ls[i]) /\ FirstClose(ls, i) = 0

\* the lines with no header line at or before them
BeforeHeader(ls) == {i \in 1..Len(ls) : \A h \in 1..i : ~IsHeaderLine(ls[h])}
\* the lines with a header line at or before them and no closing line from
\* that header line up to them
InsideBlock(ls) ==
    {i \in 1..Len(ls) :
        \E h \in 1..i : IsHeaderLine(ls[h]) /\ \A c \in h..(i - 1) : ~StartsWithBrace(ls[c])}
\* the lines of ls with an index in I, in order
RECURSIVE LinesAt(_, _, _)
LinesAt(ls, I, k) ==
    IF k > Len(ls) THEN <<>>
    ELSE (IF k \in I THEN ls[k] ELSE <<>>) \o LinesAt(ls, I, k + 1)

EntriesIn(cd) == {i \in 1..Len(cd) : cd[i] = EntryOpen}
SentinelAt(cd) == CHOOSE i \in 1..Len(cd) : cd[i] = Sentinel

C4_EntryCountMatches ==
    pc \in {"branch", "done"} =>
        /\ Cardinality(EntriesIn(code)) = TotalLogs(resp.obj.operators)
        /\ \A i \in EntriesIn(code) : i < SentinelAt(code)
        /\ HeaderCount(code) = TotalLogs(resp.obj.operators)

C4_Witness ==
    /\ pc = "branch"
    /\ Len(resp.obj.operators) = 2
    /\ resp.obj.operators[1].logs = <<>>
    /\ Len(resp.obj.operators[2].logs) = 2
    /\ Cardinality(EntriesIn(code)) = 2
    /\ HeaderCount(code) = 2

\* C5: the i-th rendered entry is the rendering of the i-th log counting
\* through the operators in order: the logs of an earlier operator precede
\* those of a later one, the order within an operator is kept, and no log is
\* dropped, duplicated or moved.
C5_EntriesInJsonOrder ==
    pc \in {"branch", "done"} =>
        /\ Cardinality(EntriesIn(code)) = TotalLogs(resp.obj.operators)
        /\ \A k \in 1..TotalLogs(resp.obj.operators) :
               RenderedEntry(code, k) = RenderEntry(LogAt(resp.obj.operators, k))

C5_Witness ==
    /\ pc = "branch"
    /\ resp.obj = [operators |-> <<[logs |-> <<LogQuote, LogTest>>], [logs |-> <<LogQuote>>]>>]
    /\ RenderedEntry(code, 1) = RenderEntry(LogQuote)
    /\ RenderedEntry(code, 2) = RenderEntry(LogTest)
    /\ RenderedEntry(code, 3) = RenderEntry(LogQuote)

\* C6: escape_c(s) is s with each backslash and each double quote prefixed by
\* one backslash and nothing else changed; removing the backslash of each
\* backslash pair gives s back; and escaping the escaped string again only
\* adds a backslash in front of each backslash and double quote it holds.
C6_EscapeRoundTrip ==
    /\ es.at \in {"once", "twice"} =>
           /\ es.once = Prefixed(es.s)
           /\ Unescape(es.once) = es.s
    /\ es.at = "twice" =>
           /\ es.twice = Prefixed(es.once)
           /\ Unescape(es.twice) = es.once

C6_Witness ==
    /\ es.at = "twice"
    /\ es.s = <<DQ, "a", BS>>
    /\ es.once = <<BS, DQ, "a", BS, BS>>
    /\ es.twice = <<BS, BS, BS, DQ, "a", BS, BS, BS, BS>>

\* C7: the file is opened for writing only after the fetch and the generation
\* succeeded; a run in which the request, the JSON parsing, the header lookup
\* or process_json fails, and a run in print mode, neither reads nor writes
\* the file and leaves its content as it was; a run reads the file at most
\* once and rewrites it at most once, the read first.
GenerationDone ==
    /\ resp.json
    /\ resp.haslm
    /\ ~ProcessJsonRaises(resp.obj)
    /\ code = process_json(resp.obj, resp.lastmod)

C7_WriteOnlyAfterGeneration ==
    /\ nread <= 1
    /\ nwrite <= 1
    /\ nwrite = 1 => (nread = 1 /\ lines = <<>> /\ GenerationDone)
    /\ nread = 1 => (update /\ GenerationDone)
    /\ (pc = "failed" /\ err.kind \in {"network", "json", "header", "process_json"})
           => (nread = 0 /\ nwrite = 0 /\ file = file0)
    /\ ~update => (nread = 0 /\ nwrite = 0 /\ file = file0)
    /\ pc \in {"fetch", "generate", "branch"} => (nread = 0 /\ nwrite = 0 /\ file = file0)

C7_Witness ==
    /\ pc = "failed"
    /\ update
    /\ err.kind = "process_json"
    /\ HasHeader(Lines0)
    /\ nread = 0
    /\ file = file0

\* C8: an entry is rendered as the opening line, three lines of bytes holding
\* 11, 11 and 10 bytes that are the SHA-256 digest of the decoded key in
\* order, the closing line of the array, and the line with the length 32 and
\* the escaped description; after the last entry come the sentinel line and
\* then the closing-brace line, the last line of the block.
C8_EntryLayout ==
    pc \in {"branch", "done"} =>
        LET ls == SplitLines(code)
            n == TotalLogs(resp.obj.operators)
        IN  /\ Len(ls) = 3 + 6 * n + 2
            /\ \A k \in 1..n :
                   LET b == 3 + 6 * (k - 1)
                       log == LogAt(resp.obj.operators, k)
                   IN  /\ ls[b + 1] = <<EntryOpen, NL>>
                       /\ IsByteLine(ls[b + 2])
                       /\ IsByteLine(ls[b + 3])
                       /\ IsByteLine(ls[b + 4])
                       /\ Len(LineBytes(ls[b + 2])) = 11
                       /\ Len(LineBytes(ls[b + 3])) = 11
                       /\ Len(LineBytes(ls[b + 4])) = 10
                       /\ LineBytes(ls[b + 2]) \o LineBytes(ls[b + 3]) \o LineBytes(ls[b + 4])
                              = ExpectedHex(log.key)
                       /\ ls[b + 5] = <<"      },", NL>>
                       /\ ls[b + 6] = <<"      ", "3", "2", ", ", DQ>>
                                      \o Prefixed(log.description) \o <<DQ, " },", NL>>
            /\ ls[Len(ls) - 1] = <<Sentinel, NL>>
            /\ ls[Len(ls)] = <<RB, ";", NL>>

C8_Witness ==
    /\ pc = "branch"
    /\ resp.obj = [operators |-> <<[logs |-> <<LogTest>>]>>]
    /\ Cardinality(EntriesIn(code)) = 1
    /\ LET ls == SplitLines(code)
       IN  /\ Len(ls) = 11
           /\ LineBytes(ls[5]) \o LineBytes(ls[6]) \o LineBytes(ls[7]) = HexOfEmpty
           /\ ls[9] = <<"      ", "3", "2", ", ", DQ, "T", "e", "s", "t", " ", "L", "o", "g",
                        DQ, " },", NL>>
           /\ ls[10] = <<Sentinel, NL>>

\* C9: while parse_source scans the lines the stage never decreases, and what
\* it returns is the split at the first header line and the first closing
\* line after it: the block is one contiguous run of lines and every line
\* after the closing line is in the suffix, a later header line included.
C9_StageNeverDecreases ==
    /\ [][(pc = "scan" /\ pc' = "scan") => stage' >= stage]_vars
    /\ [](pc = "compare" =>
              /\ begin = RegionPrefix(Lines0)
              /\ block = RegionBlock(Lines0)
              /\ end = RegionSuffix(Lines0))

\* C10: a run with --update that follows a run that wrote the file, and
\* fetches the same JSON and Last-Modified value, parses the file into the
\* same prefix, the written block and the same suffix, reports "File is
\* up-to-date" and does not write, whatever the descriptions hold.
C10_SecondUpdateIsNoOp ==
    (prev.wrote /\ update /\ resp = prev.resp /\ pc \in {"done", "failed"})
        => /\ out = "uptodate"
           /\ nwrite = 0
           /\ file = file0
           /\ begin = prev.begin
           /\ block = prev.code
           /\ end = prev.end
====
